---- MODULE Spec2Model ----
(***************************************************************************)
(* Model of decode_read_rows_response (src/bigtable/read_rows.rs): the     *)
(* loop that pulls ReadRowsResponse messages from a tonic stream and folds *)
(* their CellChunks into rows of cells.                                    *)
(*                                                                         *)
(* Encoding of the Rust values:                                            *)
(*   Vec<u8>, String   a sequence of naturals (<<>> is the empty one)      *)
(*   Option<T>         None is <<>>, Some(x) is <<x>>                      *)
(*   Duration, Instant a number of ticks, TicksPerSec ticks to the second  *)
(* The decoder only moves row keys, qualifiers, family names, timestamps   *)
(* and value bytes around (it compares none of them, and tests only the    *)
(* row key for emptiness), so a field that is present in the n-th chunk of *)
(* the stream carries the number n: every byte of the output names the     *)
(* chunk it came from.                                                     *)
(***************************************************************************)
EXTENDS Naturals, Sequences, FiniteSets

\* Most chunks a stream delivers when no timeout is configured.
MaxChunks == 3
\* Most chunks a stream delivers when a timeout is configured.
MaxTimedChunks == 2
\* Largest number of chunks in one ReadRowsResponse.
MaxBatch == 2
\* Last tick of the clock.
MaxTime == 2
\* Longest configured timeout, in ticks.
MaxTimeout == 1
\* Resolution of the clock: a Duration keeps its sub-second part.
TicksPerSec == 2

None == <<>>
Some(x) == <<x>>

RowStatus == {"None", "CommitRow", "ResetRow"}

\* The chunks that can arrive as the n-th chunk of the stream. Row key, family
\* name and qualifier are each present or absent; every chunk carries one value
\* byte and its own timestamp, so that bytes and timestamps can be traced.
CellChunk(n) ==
    [row_key : {<<>>, <<n>>},
     family_name : {None, Some(<<n>>)},
     qualifier : {None, Some(<<n>>)},
     timestamp_micros : {n},
     value : {<<n>>},
     row_status : RowStatus]

\* The messages of k chunks that can follow n delivered chunks.
RECURSIVE ReadRowsResponse(_, _)
ReadRowsResponse(n, k) ==
    IF k = 0 THEN {<<>>}
    ELSE {Append(r, c) : r \in ReadRowsResponse(n, k - 1), c \in CellChunk(n + k)}

VARIABLES
    timeout,            \* the caller's Option<Duration>
    elapsed,            \* the clock: ticks since `started`
    pc,                 \* "message": at rrr.message().await; "for": in the chunk loop; "return"
    message,            \* what rrr.message().await last yielded: "Some", "None", "Err" ("Pending" before)
    res,                \* chunks of the current message not yet processed
    rows,
    row_key,
    row_data,
    cell_family_name,
    cell_name,
    cell_timestamp,
    cell_value,
    result,             \* the value returned
    chunks,             \* history: the chunks processed so far, in order
    received            \* history: the number of chunks the source has delivered

vars == <<timeout, elapsed, pc, message, res, rows, row_key, row_data,
          cell_family_name, cell_name, cell_timestamp, cell_value, result,
          chunks, received>>

\* The locals of the decoder as one record.
Locals ==
    [rows |-> rows, row_key |-> row_key, row_data |-> row_data,
     cell_family_name |-> cell_family_name, cell_name |-> cell_name,
     cell_timestamp |-> cell_timestamp, cell_value |-> cell_value]

unwrap_or(opt, default) == IF opt = None THEN default ELSE opt[1]

\* The RowCell built from the pending cell (cell_name is Some).
RowCell(s) ==
    [family_name |-> unwrap_or(s.cell_family_name, <<>>),
     qualifier |-> s.cell_name[1],
     value |-> s.cell_value,
     timestamp_micros |-> s.cell_timestamp]

\* Mutant of StartRow: an open row keeps the key it was opened with.
StartRowKeepsFirst(s, chunk) ==
    IF chunk.row_key # <<>> /\ s.row_key = None
    THEN [s EXCEPT !.row_key = Some(chunk.row_key)]
    ELSE s

\* "Starting a new row?"
StartRow(s, chunk) ==
    IF chunk.row_key # <<>>
    THEN [s EXCEPT !.row_key = Some(chunk.row_key)]
    ELSE s

\* Mutant of StartCell: the new cell replaces the pending one, which is lost.
StartCellNoClose(s, chunk) ==
    IF chunk.qualifier # None
    THEN [s EXCEPT !.cell_name = chunk.qualifier,
                   !.cell_family_name = chunk.family_name,
                   !.cell_timestamp = chunk.timestamp_micros]
    ELSE s

\* Mutant of StartCell: a chunk without a family name leaves the pending
\* family name as it was, so the new cell inherits it.
StartCellKeepsFamily(s, chunk) ==
    IF chunk.qualifier # None
    THEN LET closed == IF s.cell_name # None
                       THEN [s EXCEPT !.row_data = Append(s.row_data, RowCell(s)),
                                      !.cell_value = <<>>]
                       ELSE s
         IN [closed EXCEPT !.cell_name = chunk.qualifier,
                           !.cell_family_name = IF chunk.family_name # None
                                                THEN chunk.family_name
                                                ELSE s.cell_family_name,
                           !.cell_timestamp = chunk.timestamp_micros]
    ELSE s

\* "Starting a new cell?": close the pending cell, then record the new one.
StartCell(s, chunk) ==
    IF chunk.qualifier # None
    THEN LET closed == IF s.cell_name # None
                       THEN [s EXCEPT !.row_data = Append(s.row_data, RowCell(s)),
                                      !.cell_family_name = None,
                                      !.cell_value = <<>>]
                       ELSE s
         IN [closed EXCEPT !.cell_name = chunk.qualifier,
                           !.cell_family_name = chunk.family_name,
                           !.cell_timestamp = chunk.timestamp_micros]
    ELSE s

\* Mutant of AppendValue: the fragment replaces the buffer.
AppendValueOverwrite(s, chunk) == [s EXCEPT !.cell_value = chunk.value]

\* cell_value.append(&mut chunk.value)
AppendValue(s, chunk) == [s EXCEPT !.cell_value = s.cell_value \o chunk.value]

\* Mutant of CommitRow: the finished row goes to the front of rows.
CommitRowFront(s) ==
    LET closed == IF s.cell_name # None
                  THEN [s EXCEPT !.row_data = Append(s.row_data, RowCell(s)),
                                 !.cell_name = None,
                                 !.cell_family_name = None,
                                 !.cell_value = <<>>]
                  ELSE s
    IN IF closed.row_key # None
       THEN [closed EXCEPT !.rows = << <<closed.row_key[1], closed.row_data>> >> \o closed.rows,
                           !.row_key = None,
                           !.row_data = <<>>]
       ELSE closed

\* Mutant of CommitRow: a Commit with no pending cell makes a cell of the buffer.
CommitRowFabricates(s) ==
    LET closed == [s EXCEPT !.row_data = Append(s.row_data,
                                [family_name |-> unwrap_or(s.cell_family_name, <<>>),
                                 qualifier |-> unwrap_or(s.cell_name, <<>>),
                                 value |-> s.cell_value,
                                 timestamp_micros |-> s.cell_timestamp]),
                            !.cell_name = None,
                            !.cell_family_name = None,
                            !.cell_value = <<>>]
    IN IF closed.row_key # None
       THEN [closed EXCEPT !.rows = Append(closed.rows, <<closed.row_key[1], closed.row_data>>),
                           !.row_key = None,
                           !.row_data = <<>>]
       ELSE closed

\* Some(RowStatus::CommitRow(_))
CommitRow(s) ==
    LET closed == IF s.cell_name # None
                  THEN [s EXCEPT !.row_data = Append(s.row_data, RowCell(s)),
                                 !.cell_name = None,
                                 !.cell_family_name = None,
                                 !.cell_value = <<>>]
                  ELSE s
    IN IF closed.row_key # None
       THEN [closed EXCEPT !.rows = Append(closed.rows, <<closed.row_key[1], closed.row_data>>),
                           !.row_key = None,
                           !.row_data = <<>>]
       ELSE closed

\* Mutant of ResetRow: the Reset drops the pending cell with the row.
ResetRowClearsCell(s) ==
    [s EXCEPT !.row_key = None, !.row_data = <<>>, !.cell_name = None,
              !.cell_family_name = None, !.cell_value = <<>>]

\* Mutant of ResetRow: the Reset also takes back the last committed row.
ResetRowDropsLast(s) ==
    [s EXCEPT !.row_key = None, !.row_data = <<>>,
              !.rows = IF s.rows = <<>> THEN <<>> ELSE SubSeq(s.rows, 1, Len(s.rows) - 1)]

\* Some(RowStatus::ResetRow(_))
ResetRow(s) == [s EXCEPT !.row_key = None, !.row_data = <<>>]

\* match chunk.row_status
EndRow(s, chunk) ==
    CASE chunk.row_status = "None" -> s
      [] chunk.row_status = "CommitRow" -> CommitRow(s)
      [] chunk.row_status = "ResetRow" -> ResetRow(s)

\* The body of the chunk loop.
DecodeChunk(s, chunk) == EndRow(AppendValue(StartCell(StartRow(s, chunk), chunk), chunk), chunk)

\* Duration::as_secs: the whole seconds of a duration.
as_secs(d) == d \div TicksPerSec

\* Mutant of Expired: the deadline itself already counts as exceeded.
ExpiredAtDeadline(now, t) == t # None /\ now >= t[1]

\* Instant::now().duration_since(started) > *timeout
Expired(now, t) == t # None /\ now > t[1]

Pending == [kind |-> "Pending", rows |-> <<>>, secs |-> 0]
Ok(r) == [kind |-> "Ok", rows |-> r, secs |-> 0]
TimeoutError(secs) == [kind |-> "TimeoutError", rows |-> <<>>, secs |-> secs]
TransportError == [kind |-> "TransportError", rows |-> <<>>, secs |-> 0]

\* The readings the clock can show next. The decoder reads the clock only at
\* the deadline check, which needs a timeout: without one the clock is left alone.
Clock == IF timeout = None THEN {elapsed} ELSE elapsed..MaxTime

\* The number of chunks the stream may still deliver.
Remaining == (IF timeout = None THEN MaxChunks ELSE MaxTimedChunks) - received

Init ==
    /\ timeout \in {None} \cup {Some(d) : d \in 0..MaxTimeout}
    /\ elapsed = 0
    /\ pc = "message"
    /\ message = "Pending"
    /\ res = <<>>
    /\ rows = <<>>
    /\ row_key = None
    /\ row_data = <<>>
    /\ cell_family_name = None
    /\ cell_name = None
    /\ cell_timestamp = 0
    /\ cell_value = <<>>
    /\ result = Pending
    /\ chunks = <<>>
    /\ received = 0

LocalsUnchanged ==
    UNCHANGED <<rows, row_key, row_data, cell_family_name, cell_name,
                cell_timestamp, cell_value>>

\* Mutant of Message: a new batch starts with an empty value buffer.
MessageResetsCell ==
    /\ pc = "message"
    /\ message' = "Some"
    /\ \E now \in Clock : elapsed' = now
    /\ \E k \in 0..MaxBatch :
          /\ k <= Remaining
          /\ res' \in ReadRowsResponse(received, k)
          /\ received' = received + k
    /\ IF Expired(elapsed', timeout)
       THEN /\ result' = TimeoutError(as_secs(timeout[1]))
            /\ pc' = "return"
       ELSE /\ result' = result
            /\ pc' = IF res' = <<>> THEN "message" ELSE "for"
    /\ cell_value' = <<>>
    /\ UNCHANGED <<rows, row_key, row_data, cell_family_name, cell_name, cell_timestamp>>
    /\ UNCHANGED <<timeout, chunks>>

\* rrr.message().await? yields Some(res): the deadline check, then the chunk loop.
Message ==
    /\ pc = "message"
    /\ message' = "Some"
    /\ \E now \in Clock : elapsed' = now
    /\ \E k \in 0..MaxBatch :
          /\ k <= Remaining
          /\ res' \in ReadRowsResponse(received, k)
          /\ received' = received + k
    /\ IF Expired(elapsed', timeout)
       THEN /\ result' = TimeoutError(as_secs(timeout[1]))
            /\ pc' = "return"
       ELSE /\ result' = result
            /\ pc' = IF res' = <<>> THEN "message" ELSE "for"
    /\ LocalsUnchanged
    /\ UNCHANGED <<timeout, chunks>>

\* Mutant of Chunk: a Commit with no pending cell ends the call with an error.
ChunkStopsAtAnomaly ==
    /\ pc = "for"
    /\ LET chunk == Head(res)
           s == DecodeChunk(Locals, chunk)
           anomaly == chunk.row_status = "CommitRow" /\ chunk.qualifier = None
                         /\ cell_name = None
       IN /\ rows' = s.rows
          /\ row_key' = s.row_key
          /\ row_data' = s.row_data
          /\ cell_family_name' = s.cell_family_name
          /\ cell_name' = s.cell_name
          /\ cell_timestamp' = s.cell_timestamp
          /\ cell_value' = s.cell_value
          /\ chunks' = Append(chunks, chunk)
          /\ res' = Tail(res)
          /\ result' = IF anomaly THEN TransportError ELSE result
          /\ pc' = IF anomaly THEN "return" ELSE IF res' = <<>> THEN "message" ELSE "for"
    /\ \E now \in Clock : elapsed' = now
    /\ UNCHANGED <<timeout, message, received>>

\* Mutant of Chunk: an iteration consumes two chunks of the batch, decoding one.
ChunkSkipsNext ==
    /\ pc = "for"
    /\ LET chunk == Head(res)
           s == DecodeChunk(Locals, chunk)
       IN /\ rows' = s.rows
          /\ row_key' = s.row_key
          /\ row_data' = s.row_data
          /\ cell_family_name' = s.cell_family_name
          /\ cell_name' = s.cell_name
          /\ cell_timestamp' = s.cell_timestamp
          /\ cell_value' = s.cell_value
          /\ chunks' = Append(chunks, chunk)
    /\ res' = IF Len(res) >= 2 THEN Tail(Tail(res)) ELSE Tail(res)
    /\ pc' = IF res' = <<>> THEN "message" ELSE "for"
    /\ \E now \in Clock : elapsed' = now
    /\ UNCHANGED <<timeout, message, result, received>>

\* One iteration of `for (i, mut chunk) in res.chunks`.
Chunk ==
    /\ pc = "for"
    /\ LET chunk == Head(res)
           s == DecodeChunk(Locals, chunk)
       IN /\ rows' = s.rows
          /\ row_key' = s.row_key
          /\ row_data' = s.row_data
          /\ cell_family_name' = s.cell_family_name
          /\ cell_name' = s.cell_name
          /\ cell_timestamp' = s.cell_timestamp
          /\ cell_value' = s.cell_value
          /\ chunks' = Append(chunks, chunk)
    /\ res' = Tail(res)
    /\ pc' = IF res' = <<>> THEN "message" ELSE "for"
    /\ \E now \in Clock : elapsed' = now
    /\ UNCHANGED <<timeout, message, result, received>>

\* Mutant of EndOfStream: the deadline is checked at the end of the stream too.
EndOfStreamChecked ==
    /\ pc = "message"
    /\ message' = "None"
    /\ \E now \in Clock : elapsed' = now
    /\ result' = IF Expired(elapsed', timeout) THEN TimeoutError(as_secs(timeout[1]))
                 ELSE Ok(rows)
    /\ pc' = "return"
    /\ LocalsUnchanged
    /\ UNCHANGED <<timeout, res, chunks, received>>

\* Mutant of EndOfStream: the open row is flushed into the result.
EndOfStreamFlushes ==
    /\ pc = "message"
    /\ message' = "None"
    /\ \E now \in Clock : elapsed' = now
    /\ rows' = CommitRow(Locals).rows
    /\ result' = Ok(rows')
    /\ pc' = "return"
    /\ UNCHANGED <<row_key, row_data, cell_family_name, cell_name, cell_timestamp, cell_value>>
    /\ UNCHANGED <<timeout, res, chunks, received>>

\* rrr.message().await? yields None: the loop ends, Ok(rows).
EndOfStream ==
    /\ pc = "message"
    /\ message' = "None"
    /\ \E now \in Clock : elapsed' = now
    /\ result' = Ok(rows)
    /\ pc' = "return"
    /\ LocalsUnchanged
    /\ UNCHANGED <<timeout, res, chunks, received>>

\* Mutant of Failure: the deadline is checked before the pull's result.
FailureAfterDeadline ==
    /\ pc = "message"
    /\ message' = "Err"
    /\ \E now \in Clock : elapsed' = now
    /\ result' = IF Expired(elapsed', timeout) THEN TimeoutError(as_secs(timeout[1]))
                 ELSE TransportError
    /\ pc' = "return"
    /\ LocalsUnchanged
    /\ UNCHANGED <<timeout, res, chunks, received>>

\* rrr.message().await? yields Err(status): the `?` returns it.
Failure ==
    /\ pc = "message"
    /\ message' = "Err"
    /\ \E now \in Clock : elapsed' = now
    /\ result' = TransportError
    /\ pc' = "return"
    /\ LocalsUnchanged
    /\ UNCHANGED <<timeout, res, chunks, received>>

Next == Message \/ Chunk \/ EndOfStream \/ Failure

Spec == Init /\ [][Next]_vars

\* The decoder under a fair source: the chunk loop keeps running while a batch
\* has chunks left, every pull is answered, and the source does not deliver
\* batches for ever: it eventually signals the end of the stream or fails.
FairSpec ==
    /\ Spec
    /\ WF_vars(Chunk)
    /\ WF_vars(Message \/ EndOfStream \/ Failure)
    /\ SF_vars(EndOfStream \/ Failure)

TypeOK ==
    /\ pc \in {"message", "for", "return"}
    /\ Len(chunks) + Len(res) = received
    /\ elapsed \in 0..MaxTime

(***************************************************************************)
(* Reading the history of processed chunks. The definitions below describe *)
(* a chunk sequence h by its shape only; none of them runs the decoder.    *)
(***************************************************************************)

\* The row key in force when chunk j's row status is read: the chunk's own
\* key, else the key in force at chunk j-1 unless that chunk ended its row.
RECURSIVE KeyAt(_, _)
KeyAt(h, j) ==
    IF j = 0 THEN None
    ELSE IF h[j].row_key # <<>> THEN Some(h[j].row_key)
    ELSE IF j = 1 \/ h[j - 1].row_status # "None" THEN None
    ELSE KeyAt(h, j - 1)

Commits(h) == {j \in 1..Len(h) : h[j].row_status = "CommitRow"}

\* The position in h of its n-th Commit chunk.
CommitIndex(h, n) ==
    CHOOSE j \in Commits(h) : Cardinality({m \in Commits(h) : m <= j}) = n

\* Every Commit of h arrives while a row key is set.
ValidStream(h) == \A j \in Commits(h) : KeyAt(h, j) # None

\* The value fragments of chunks a..b of h, in arrival order.
RECURSIVE Fragments(_, _, _)
Fragments(h, a, b) == IF a > b THEN <<>> ELSE Fragments(h, a, b - 1) \o h[b].value

\* Chunks a..b of h are the chunks of one row and of no other: the first
\* carries the row key and a qualifier, none after it carries a row key, and
\* none but the last (if closed) carries a row status, which is Commit.
OneRow(h, a, b, closed) ==
    /\ a <= b
    /\ h[a].row_key # <<>>
    /\ h[a].qualifier # None
    /\ \A j \in (a + 1)..b : h[j].row_key = <<>>
    /\ \A j \in a..(b - 1) : h[j].row_status = "None"
    /\ h[b].row_status = IF closed THEN "CommitRow" ELSE "None"

\* The numbers (chunk positions) found in the fields of a cell.
Origins(cell) ==
    {cell.qualifier[k] : k \in 1..Len(cell.qualifier)}
      \cup {cell.value[k] : k \in 1..Len(cell.value)}
      \cup {cell.family_name[k] : k \in 1..Len(cell.family_name)}
      \cup {cell.timestamp_micros}

\* C1: partial data for a row K, then a Reset chunk (chunk r), then a complete
\* row K2 ending in Commit: the output is the one row K2, and everything in it
\* (qualifiers, families, timestamps, value bytes) comes from the chunks after
\* the Reset chunk.
C1_ResetDiscardsProgress ==
    \A r \in 2..(Len(chunks) - 1) :
        ( /\ result.kind = "Ok"
          /\ OneRow(chunks, 1, r - 1, FALSE)
          /\ chunks[r].row_status = "ResetRow"
          /\ chunks[r].row_key = <<>>
          /\ chunks[r].qualifier = None
          /\ OneRow(chunks, r + 1, Len(chunks), TRUE) )
        => /\ Len(result.rows) = 1
           /\ result.rows[1][1] = chunks[r + 1].row_key
           /\ \A k \in 1..Len(result.rows[1][2]) :
                 \A n \in Origins(result.rows[1][2][k]) : n > r

\* C2: a stream whose every Commit arrives with a row key set yields one row
\* per Commit, the n-th row under the key in force at the n-th Commit; a
\* successful return hands out exactly these rows.
C2_RowPerCommitInOrder ==
    /\ ValidStream(chunks) =>
          /\ Len(rows) = Cardinality(Commits(chunks))
          /\ \A n \in 1..Len(rows) :
                rows[n][1] = KeyAt(chunks, CommitIndex(chunks, n))[1]
    /\ result.kind = "Ok" => result.rows = rows

C2_Witness ==
    /\ result.kind = "Ok"
    /\ ValidStream(chunks)
    /\ Cardinality(Commits(chunks)) = 2
    /\ Len(chunks) = 3

\* C3: a stream that is one cell of one row (a first chunk with row key,
\* qualifier, family and timestamp, then continuation chunks that carry value
\* bytes only, the last chunk with Commit) yields exactly that row with that
\* one cell: family, qualifier and timestamp of the first chunk, the value
\* fragments of all the chunks concatenated in arrival order.
C3_SplitValueCell ==
    ( /\ chunks # <<>>
      /\ OneRow(chunks, 1, Len(chunks), TRUE)
      /\ \A j \in 2..Len(chunks) : chunks[j].qualifier = None )
    => rows = << << chunks[1].row_key,
                   << [family_name |-> IF chunks[1].family_name = None THEN <<>>
                                       ELSE chunks[1].family_name[1],
                       qualifier |-> chunks[1].qualifier[1],
                       value |-> Fragments(chunks, 1, Len(chunks)),
                       timestamp_micros |-> chunks[1].timestamp_micros] >> >> >>

C3_Witness ==
    /\ Len(chunks) = 3
    /\ OneRow(chunks, 1, 3, TRUE)
    /\ chunks[2].qualifier = None
    /\ chunks[3].qualifier = None
    /\ chunks[1].family_name # None
    /\ Len(rows) = 1

\* The chunks of h that carry a qualifier, and the position of the k-th one.
QualifierChunks(h) == {j \in 1..Len(h) : h[j].qualifier # None}

QualifierIndex(h, k) ==
    CHOOSE j \in QualifierChunks(h) : Cardinality({m \in QualifierChunks(h) : m <= j}) = k

\* The cell that the k-th qualifier chunk of a one-row stream h opens: its own
\* family, qualifier and timestamp, and the fragments up to the next qualifier
\* chunk (or to the end of the row).
CellOfQualifier(h, k) ==
    LET q == QualifierIndex(h, k)
        last == IF k = Cardinality(QualifierChunks(h)) THEN Len(h)
                ELSE QualifierIndex(h, k + 1) - 1
    IN [family_name |-> IF h[q].family_name = None THEN <<>> ELSE h[q].family_name[1],
        qualifier |-> h[q].qualifier[1],
        value |-> Fragments(h, q, last),
        timestamp_micros |-> h[q].timestamp_micros]

\* A chunk with a qualifier arrives while a cell is pending: the pending cell
\* goes to the end of the open row's cell list as it stands (family or "",
\* qualifier, timestamp, value buffer), and the new cell starts from an empty
\* buffer; the chunk's row status then acts on that.
C4_ClosesPending ==
    (pc = "for" /\ Head(res).qualifier # None /\ cell_name # None) =>
        LET c == Head(res)
            old == [family_name |-> IF cell_family_name = None THEN <<>>
                                    ELSE cell_family_name[1],
                    qualifier |-> cell_name[1],
                    value |-> cell_value,
                    timestamp_micros |-> cell_timestamp]
            new == [family_name |-> IF c.family_name = None THEN <<>>
                                    ELSE c.family_name[1],
                    qualifier |-> c.qualifier[1],
                    value |-> c.value,
                    timestamp_micros |-> c.timestamp_micros]
            key == IF c.row_key # <<>> THEN Some(c.row_key) ELSE row_key
        IN CASE c.row_status = "None" ->
                  /\ row_data' = Append(row_data, old)
                  /\ cell_name' = c.qualifier
                  /\ cell_value' = c.value
                  /\ rows' = rows
             [] c.row_status = "CommitRow" ->
                  IF key # None
                  THEN rows' = Append(rows, <<key[1], row_data \o <<old, new>> >>)
                  ELSE rows' = rows /\ row_data' = row_data \o <<old, new>>
             [] c.row_status = "ResetRow" ->
                  /\ row_data' = <<>>
                  /\ cell_name' = c.qualifier
                  /\ cell_value' = c.value
                  /\ rows' = rows

\* A stream that is one row (n chunks with a qualifier, continuation chunks
\* between them, Commit on the last chunk) yields that row with n cells, the
\* k-th being the cell of the k-th qualifier chunk.
C4_CellPerQualifier ==
    (chunks # <<>> /\ OneRow(chunks, 1, Len(chunks), TRUE)) =>
        /\ Len(rows) = 1
        /\ rows[1][1] = chunks[1].row_key
        /\ Len(rows[1][2]) = Cardinality(QualifierChunks(chunks))
        /\ \A k \in 1..Len(rows[1][2]) : rows[1][2][k] = CellOfQualifier(chunks, k)

\* C4: a qualifier chunk closes the pending cell before it starts the new one,
\* so a row of n qualifier chunks and a Commit has n cells in arrival order.
C4_AutoClose == [][C4_ClosesPending]_vars /\ []C4_CellPerQualifier

C4_Witness ==
    /\ Len(chunks) = 3
    /\ OneRow(chunks, 1, 3, TRUE)
    /\ Cardinality(QualifierChunks(chunks)) = 3
    /\ Len(rows) = 1
    /\ Len(rows[1][2]) = 3

\* C5: after a Commit chunk that arrives with no row key set, no row has been
\* emitted for it and the open row's cell list is empty.
C5_KeylessCommitDiscards ==
    ( /\ chunks # <<>>
      /\ chunks[Len(chunks)].row_status = "CommitRow"
      /\ KeyAt(chunks, Len(chunks)) = None )
    => row_data = <<>>

(***************************************************************************)
(* The deadline, the source's failure and the end of the stream.           *)
(***************************************************************************)

\* The deadline is exceeded on the clock reading now.
PastDeadline(now) == timeout # None /\ now > timeout[1]

\* One step of the decoder, as the deadline rule sees it. A received message
\* (message' = "Some") past the deadline ends the call with the timeout error,
\* no rows, and none of its chunks processed; a message at or before the
\* deadline, or with no deadline configured, goes to the chunk loop whole and
\* produces no error. Inside the chunk loop the clock is not consulted: each
\* chunk of the batch is processed whatever the clock shows. `exact` chooses
\* what the error carries: the configured deadline itself, or its whole seconds.
C6_Step(exact) ==
    /\ (pc = "message" /\ message' = "Some") =>
          IF PastDeadline(elapsed')
          THEN /\ result'.kind = "TimeoutError"
               /\ IF exact
                  THEN result'.secs * TicksPerSec = timeout[1]
                  ELSE /\ result'.secs * TicksPerSec <= timeout[1]
                       /\ timeout[1] < (result'.secs + 1) * TicksPerSec
               /\ result'.rows = <<>>
               /\ pc' = "return"
               /\ chunks' = chunks
               /\ rows' = rows
          ELSE /\ result' = Pending
               /\ received' = received + Len(res')
               /\ pc' = IF res' = <<>> THEN "message" ELSE "for"
    /\ pc = "for" =>
          /\ result' = Pending
          /\ chunks' = Append(chunks, Head(res))
          /\ res' = Tail(res)

\* C6 as stated: the timeout error carries the configured deadline.
C6_DeadlinePerBatchExact == [][C6_Step(TRUE)]_vars

\* C6, amended: the deadline is checked once per received batch, before its
\* chunks; past the deadline (strictly) the call returns the timeout error
\* carrying the whole seconds of the configured deadline, and no rows;
\* otherwise the batch is processed and produces no timeout error.
C6_DeadlinePerBatch == [][C6_Step(FALSE)]_vars

C6_Witness ==
    /\ result.kind = "TimeoutError"
    /\ rows # <<>>
    /\ res # <<>>

\* C7 as stated: a call that has returned after a resumption (a batch or the
\* end of the stream) past the deadline has returned the timeout error.
C7_DeadlineAbortsCall ==
    (pc = "return" /\ message \in {"Some", "None"} /\ PastDeadline(elapsed))
        => result.kind = "TimeoutError" /\ result.rows = <<>>

\* C7, amended: past the deadline, a received batch ends the call with the
\* timeout error and no rows; the end of the stream is not checked against
\* the deadline and returns the committed rows.
C7_DeadlineAbortsAtBatch ==
    (pc = "return" /\ PastDeadline(elapsed)) =>
        /\ message = "Some" => result.kind = "TimeoutError" /\ result.rows = <<>>
        /\ message = "None" => result = Ok(rows)

C7_Witness ==
    /\ result.kind = "TimeoutError"
    /\ Len(chunks) = 2
    /\ Len(rows) = 2
    /\ res = <<>>

\* C8: a failed pull returns the transport error at once: no chunk is
\* processed by the step or after it, no row is returned, and the error is
\* the transport error whatever the clock shows.
C8_Step ==
    /\ pc # "return"
    /\ message' = "Err" =>
          /\ result' = TransportError
          /\ result'.kind # "TimeoutError"
          /\ result'.rows = <<>>
          /\ pc' = "return"
          /\ chunks' = chunks

\* C8: every step of the decoder obeys the rule above.
C8_FailurePropagates == [][C8_Step]_vars

C8_Witness ==
    /\ result.kind = "TransportError"
    /\ PastDeadline(elapsed)
    /\ rows # <<>>

\* C9: the call returns an error only for a failed pull (the transport error)
\* or for a batch received past the deadline (the timeout error); it returns
\* only from a pull; and at the end of the stream every delivered chunk has
\* been processed and the rows are returned successfully.
C9_AnomaliesNeverStop ==
    /\ result.kind = "TransportError" => message = "Err"
    /\ result.kind = "TimeoutError" => message = "Some" /\ PastDeadline(elapsed)
    /\ message = "None" =>
          /\ result = Ok(rows)
          /\ Len(chunks) = received
    /\ message = "Pending" => chunks = <<>>
    /\ pc = "return" <=> result # Pending
    /\ pc = "for" <=> (res # <<>> /\ result = Pending)

\* Three anomalous chunks, then success: a Reset with nothing open, a Commit
\* with neither a row key nor a pending cell, a Commit of a row with no cell.
C9_Witness ==
    /\ result.kind = "Ok"
    /\ Len(chunks) = 3
    /\ \A j \in 1..3 : chunks[j].qualifier = None
    /\ chunks[1].row_status = "ResetRow"
    /\ chunks[2].row_status = "CommitRow" /\ chunks[2].row_key = <<>>
    /\ chunks[3].row_status = "CommitRow" /\ chunks[3].row_key # <<>>

\* The first chunk of the row that chunk j belongs to: the earliest chunk
\* from which a row key has been in force without interruption.
RECURSIVE RowStart(_, _)
RowStart(h, j) ==
    IF j = 1 \/ h[j - 1].row_status # "None" \/ KeyAt(h, j - 1) = None THEN j
    ELSE RowStart(h, j - 1)

\* C10 as stated, on streams with no Reset chunk and no Commit without a row
\* key: the row closed by a Commit chunk with no qualifier chunk since the row
\* began (so with no cell closed for it) is emitted with an empty cell list.
C10_CommitWithoutQualifier ==
    LET n == Len(chunks) IN
    ( /\ n > 0
      /\ \A j \in 1..n : chunks[j].row_status # "ResetRow"
      /\ ValidStream(chunks)
      /\ chunks[n].row_status = "CommitRow"
      /\ \A j \in RowStart(chunks, n)..n : chunks[j].qualifier = None )
    => /\ rows # <<>>
       /\ rows[Len(rows)] = <<KeyAt(chunks, n)[1], <<>> >>

\* C10, amended: a Commit chunk without a qualifier that arrives for an open
\* row while no cell is pending emits the row with the cell list as it stood
\* before the chunk, adds no cell, and raises no error.
C10_Step ==
    LET c == Head(res)
        key == IF c.row_key # <<>> THEN Some(c.row_key) ELSE row_key
    IN ( /\ pc = "for"
         /\ c.row_status = "CommitRow"
         /\ c.qualifier = None
         /\ cell_name = None
         /\ key # None )
       => /\ rows' = Append(rows, <<key[1], row_data>>)
          /\ row_data' = <<>>
          /\ result' = Pending
          /\ pc' # "return"

\* C10, amended: every step of the decoder obeys the rule above.
C10_CommitWithoutPendingCell == [][C10_Step]_vars

C10_Witness ==
    LET n == Len(chunks) IN
    /\ n = 3
    /\ chunks[n].row_status = "CommitRow"
    /\ chunks[n].qualifier = None
    /\ chunks[n - 1].row_status = "CommitRow"
    /\ Len(rows) = 2
    /\ rows[2] = <<KeyAt(chunks, n)[1], <<>> >>

(***************************************************************************)
(* The end of the stream, the committed rows, and the pending state.       *)
(***************************************************************************)

\* The Commit chunks of h that arrive with a row key set: those that emit a row.
KeyedCommits(h) == {j \in Commits(h) : KeyAt(h, j) # None}

\* The position in h of the n-th Commit chunk that emits a row.
EmitIndex(h, n) ==
    CHOOSE j \in KeyedCommits(h) : Cardinality({m \in KeyedCommits(h) : m <= j}) = n

\* C11: at the end of the stream the call returns the rows committed so far,
\* in order, one per Commit that arrived with a row key; whatever came after
\* the last such Commit (an open row key, accumulated cells, a pending cell)
\* gives the output no row and no cell.
C11_EndOfStreamReturnsCommitted ==
    message = "None" =>
        /\ result = Ok(rows)
        /\ Len(result.rows) = Cardinality(KeyedCommits(chunks))
        /\ \A n \in 1..Len(result.rows) :
              /\ result.rows[n][1] = KeyAt(chunks, EmitIndex(chunks, n))[1]
              /\ \A k \in 1..Len(result.rows[n][2]) :
                    \A o \in Origins(result.rows[n][2][k]) : o <= EmitIndex(chunks, n)

\* A returned call that left a row key, a closed cell and a pending cell behind.
C11_Witness ==
    /\ result.kind = "Ok"
    /\ Len(result.rows) = 1
    /\ row_key # None
    /\ row_data # <<>>
    /\ cell_name # None

\* One step of the decoder, as the output sees it: rows changes only by one
\* row appended, at a Commit chunk that arrives with a row key set; such a
\* chunk appends a row under that key and leaves no row key and no cell list.
C12_Step ==
    LET c == Head(res)
        key == IF c.row_key # <<>> THEN Some(c.row_key) ELSE row_key
        emits == pc = "for" /\ c.row_status = "CommitRow" /\ key # None
    IN /\ rows' # rows => emits
       /\ emits => /\ Len(rows') = Len(rows) + 1
                   /\ SubSeq(rows', 1, Len(rows)) = rows
                   /\ rows'[Len(rows')][1] = key[1]
                   /\ row_key' = None
                   /\ row_data' = <<>>

\* C12: committed rows are never modified, removed or reordered, and a Commit
\* that emits a row resets the row key and the cell list.
C12_CommittedRowsImmutable == [][C12_Step]_vars

\* Two rows committed, then a Reset chunk: both rows are still there.
C12_Witness ==
    /\ Len(chunks) = 3
    /\ chunks[3].row_status = "ResetRow"
    /\ KeyedCommits(chunks) = {1, 2}
    /\ Len(rows) = 2
    /\ row_key = None
    /\ row_data = <<>>

(***************************************************************************)
(* Termination, and the order in which the chunks are processed.           *)
(***************************************************************************)

\* The chunks delivered so far are numbered 1..received in arrival order:
\* those processed, then those of the current batch still waiting, with
\* none missing, repeated or out of place.
InArrivalOrder ==
    /\ Len(chunks) + Len(res) = received
    /\ \A j \in 1..Len(chunks) : chunks[j].timestamp_micros = j
    /\ \A k \in 1..Len(res) : res[k].timestamp_micros = Len(chunks) + k

\* The loop ends at the first end of stream, failure or exceeded deadline,
\* and nothing happens after the call has returned.
C13_Step ==
    /\ pc # "return"
    /\ message' \in {"None", "Err"} => pc' = "return"
    /\ (pc = "message" /\ message' = "Some" /\ PastDeadline(elapsed')) => pc' = "return"
    /\ pc' = "return" =>
          \/ message' \in {"None", "Err"}
          \/ pc = "message" /\ message' = "Some" /\ PastDeadline(elapsed')

\* C13 as stated: the call returns, and every delivered chunk has then been
\* processed exactly once, in arrival order.
C13_EveryDeliveredChunkProcessed ==
    /\ <>(pc = "return")
    /\ [](InArrivalOrder /\ (pc \in {"message", "return"} => Len(chunks) = received))
    /\ [][C13_Step]_vars

\* C13, amended: the call returns; the chunks are processed in arrival order,
\* at most once each; when the call waits for the source or has returned,
\* every delivered chunk has been processed, except the chunks of the batch
\* at which the deadline was found exceeded, none of which is processed.
C13_Terminates ==
    /\ <>(pc = "return")
    /\ [](InArrivalOrder /\ (pc \in {"message", "return"} =>
                IF result.kind = "TimeoutError"
                THEN Len(chunks) = received - Len(res)
                ELSE Len(chunks) = received /\ res = <<>>))
    /\ [][C13_Step]_vars

\* A call that returned at the end of a stream delivered in two batches.
C13_Witness ==
    /\ pc = "return"
    /\ message = "None"
    /\ received = 3
    /\ Len(chunks) = 3

(***************************************************************************)
(* Determinism: the result as a function of the chunk sequence.            *)
(***************************************************************************)

\* The locals as declared, before the first pull.
InitLocals ==
    [rows |-> <<>>, row_key |-> None, row_data |-> <<>>,
     cell_family_name |-> None, cell_name |-> None,
     cell_timestamp |-> 0, cell_value |-> <<>>]

\* The locals after the chunks of h, one after the other, whatever the
\* batches they came in and whatever the clock showed.
RECURSIVE Decoded(_)
Decoded(h) ==
    IF h = <<>> THEN InitLocals
    ELSE DecodeChunk(Decoded(SubSeq(h, 1, Len(h) - 1)), h[Len(h)])

\* C14: with no deadline configured and no failure of the source, the state
\* of the decoder and the result it returns are a function of the sequence of
\* chunks alone: two calls given the same chunks return the same rows,
\* however the chunks are grouped into batches.
C14_Deterministic ==
    (timeout = None /\ message # "Err") =>
        /\ Locals = Decoded(chunks)
        /\ pc = "return" => /\ result = Ok(Decoded(chunks).rows)
                            /\ Len(chunks) = received

\* A returned row whose one cell was split over three chunks, more than a
\* batch of MaxBatch chunks holds.
C14_Witness ==
    /\ timeout = None
    /\ result.kind = "Ok"
    /\ Len(chunks) = 3
    /\ Len(result.rows) = 1
    /\ Len(result.rows[1][2]) = 1
    /\ result.rows[1][2][1].value = <<1, 2, 3>>

(***************************************************************************)
(* The pending cell and the open row.                                      *)
(***************************************************************************)

\* C15: after every processed chunk, a pending cell belongs to an open row:
\* whenever cell_name is set, row_key is set. Stated for the streams that
\* never start a cell outside a row (every qualifier chunk carries a row key
\* or arrives with one set), so that what remains is the decoder's own doing.
C15_PendingCellHasOpenRow ==
    (\A j \in QualifierChunks(chunks) : KeyAt(chunks, j) # None) =>
        (cell_name # None => row_key # None)

\* One chunk with the Reset status, as the row-status step leaves the state.
\* The row key and the cell list are cleared and rows is untouched; the
\* pending cell is what the first three steps of the chunk made of it: the
\* chunk's own qualifier, family name and timestamp if it carries a
\* qualifier, the previous ones if not, and the value buffer with the chunk's
\* own bytes at its end (after the previous bytes unless the chunk's
\* qualifier closed a pending cell).
C16_Step ==
    LET c == Head(res)
    IN (pc = "for" /\ c.row_status = "ResetRow") =>
          /\ row_key' = None
          /\ row_data' = <<>>
          /\ rows' = rows
          /\ IF c.qualifier = None
             THEN /\ cell_name' = cell_name
                  /\ cell_family_name' = cell_family_name
                  /\ cell_timestamp' = cell_timestamp
                  /\ cell_value' = cell_value \o c.value
             ELSE /\ cell_name' = c.qualifier
                  /\ cell_family_name' = c.family_name
                  /\ cell_timestamp' = c.timestamp_micros
                  /\ cell_value' = IF cell_name # None THEN c.value
                                   ELSE cell_value \o c.value

ClosedCells ==
    UNION {{rows[n][2][k] : k \in 1..Len(rows[n][2])} : n \in 1..Len(rows)}
      \cup {row_data[k] : k \in 1..Len(row_data)}

\* The chunk that carried the qualifier of a cell.
QualifierChunkOf(cell) == cell.qualifier[1]

\* C17: the family name of a closed cell is the one its qualifier chunk
\* carried, or "" if that chunk carried none; never that of an earlier cell.
C17_FamilyOfQualifierChunk ==
    \A cell \in ClosedCells :
        LET c == chunks[QualifierChunkOf(cell)]
        IN cell.family_name = IF c.family_name = None THEN <<>> ELSE c.family_name[1]

\* A committed row whose first cell has a family name and whose second,
\* started by a chunk without one, has the empty family name.
C17_Witness ==
    /\ Len(rows) = 1
    /\ Len(rows[1][2]) = 2
    /\ rows[1][2][1].family_name = <<1>>
    /\ rows[1][2][2].family_name = <<>>
    /\ chunks[2].family_name = None

\* The chunk whose row key a Commit at chunk c of h files its row under: the
\* last chunk up to c that carries a row key with no row status (neither a
\* Commit nor a Reset) between it and c.
KeyChunk(h, c) ==
    LET ks == {j \in 1..c : /\ h[j].row_key # <<>>
                            /\ \A m \in j..(c - 1) : h[m].row_status = "None"}
    IN CHOOSE j \in ks : \A m \in ks : m <= j

\* A chunk carrying a row key while a row is open: the key is replaced,
\* no row is emitted because of it, and the cells of the open row stay,
\* to be emitted under the new key by the Commit (this chunk's, or a later one).
C18_Step ==
    LET c == Head(res)
    IN (pc = "for" /\ c.row_key # <<>> /\ row_key # None) =>
          IF c.row_status = "None"
          THEN /\ rows' = rows
               /\ row_key' = Some(c.row_key)
               /\ Len(row_data') >= Len(row_data)
               /\ SubSeq(row_data', 1, Len(row_data)) = row_data
               /\ c.qualifier = None => row_data' = row_data /\ cell_name' = cell_name
          ELSE IF c.row_status = "CommitRow"
          THEN /\ Len(rows') = Len(rows) + 1
               /\ rows'[Len(rows')][1] = c.row_key
               /\ SubSeq(rows'[Len(rows')][2], 1, Len(row_data)) = row_data
          ELSE rows' = rows

\* C18: the key of every emitted row is the most recent row key at or before
\* its Commit chunk and after the previous Commit or Reset; a key replaced
\* while the row was open is in no row, and its cells are under the new key.
C18_RowKeyIsMostRecent ==
    /\ [](\A n \in 1..Len(rows) :
             LET c == EmitIndex(chunks, n)
             IN rows[n][1] = chunks[KeyChunk(chunks, c)].row_key)
    /\ [][C18_Step]_vars

\* A row opened under key 1 with a cell, re-keyed by chunk 2, committed by
\* chunk 3: one row, under key 2, holding the cell received under key 1.
C18_Witness ==
    /\ Len(chunks) = 3
    /\ chunks[1].row_key = <<1>>
    /\ chunks[2].row_key = <<2>>
    /\ chunks[3].row_key = <<>>
    /\ Len(rows) = 1
    /\ rows[1][1] = <<2>>
    /\ Len(rows[1][2]) >= 1
    /\ rows[1][2][1].qualifier = <<1>>

\* The chunk that closes the cell whose qualifier chunk q of h carried: the
\* first Commit chunk from q on, or the chunk before the next qualifier chunk.
ClosingChunk(h, q) ==
    LET e == CHOOSE j \in q..Len(h) :
                 /\ h[j].row_status = "CommitRow" \/ (j > q /\ h[j].qualifier # None)
                 /\ \A m \in q..(j - 1) :
                       ~(h[m].row_status = "CommitRow" \/ (m > q /\ h[m].qualifier # None))
    IN IF e > q /\ h[e].qualifier # None THEN e - 1 ELSE e

\* The cells of the committed rows.
EmittedCells ==
    UNION {{rows[n][2][k] : k \in 1..Len(rows[n][2])} : n \in 1..Len(rows)}

\* C19: the value of every emitted cell is the concatenation of the value
\* fragments of the chunks from its qualifier chunk to its closing chunk;
\* bytes received while no cell was pending are in no cell.
C19_ValueIsOwnFragments ==
    \A cell \in EmittedCells :
        LET q == QualifierChunkOf(cell)
        IN cell.value = Fragments(chunks, q, ClosingChunk(chunks, q))
====
